---- MODULE Spec2Model ----
(***************************************************************************)
(* Model of the StACSOS physical page buddy allocator                      *)
(* (kernel/src/mem/page-allocator-buddy.cpp).                              *)
(*                                                                         *)
(* A page is identified by its pfn; a page pointer is its pfn, and         *)
(* pointer comparison of two page descriptors is comparison of their pfns  *)
(* (the descriptor table is a dense array indexed by pfn).  The first      *)
(* machine word of every page's backing storage is the variable            *)
(* next_free; free_list is the array of list heads.                        *)
(***************************************************************************)
EXTENDS Integers, Sequences, FiniteSets

\* Number of page frames of the modelled machine (pfns 0 .. NumPages-1).
NumPages == 8

\* Largest order managed by the allocator (scaled down for model checking).
LastOrder == 2

\* The null pointer.
NULL == -1

\* The address of the list head free_list_[order], as a value of `slot`.
HEAD == -2

\* A first word that is neither null nor the address of a page descriptor:
\* what a page holds before the allocator or pzero has written to it.
JUNK == -3

Pages == 0 .. (NumPages - 1)
Orders == 0 .. LastOrder

VARIABLES
    free_list,   \* free_list[o]: pfn of the first free block of order o, or NULL
    next_free,   \* next_free[p]: first word of page p's storage (page_metadata)
    body,        \* body[p]: 0 if the rest of page p's storage reads as zero, else 1
    total_free,  \* total_free_
    halted,      \* a fatal assertion has fired
    call,        \* the call in progress and its local variables, or Idle
    runqueue,    \* round_robin::runqueue_, head first
    sched,       \* history: the last scheduler operation and the selections since
    inserted,    \* history: pfns given to insert_free_pages
    allocated,   \* history: outstanding blocks <<pfn, order>>
    started,     \* history: bootstrap is over (an allocate_pages call was made)
    last         \* history: the last public operation, its arguments and result

vars == <<free_list, next_free, body, total_free, halted, call, inserted, allocated, started, last,
          runqueue, sched>>

\* The page allocator's variables and the scheduler's.
mem_vars == <<free_list, next_free, body, total_free, halted, call, inserted, allocated, started, last>>
sched_vars == <<runqueue, sched>>

----------------------------------------------------------------------------
(* Helpers declared in page-allocator-buddy.h.                             *)

pages_per_block(order) == 2 ^ order

block_aligned(order, pfn) == (pfn % pages_per_block(order)) = 0

\* Bitwise exclusive or of two naturals (the C operator ^).
RECURSIVE BitXor(_, _)
BitXor(a, b) ==
    IF a = 0 THEN b
    ELSE IF b = 0 THEN a
    ELSE (((a % 2) + (b % 2)) % 2) + 2 * BitXor(a \div 2, b \div 2)

----------------------------------------------------------------------------
(* The allocator's state as a value: fl = free_list_, nx = the link words, *)
(* bd = the rest of the pages' storage, tf = total_free_, ok = FALSE once  *)
(* an assertion has failed (execution stops there, so every later step     *)
(* leaves the state alone).                                                *)

State == [fl |-> free_list, nx |-> next_free, bd |-> body, tf |-> total_free, ok |-> ~halted]

\* Variant of Fatal: the failed assertion is passed over without a halt.
FatalPassedOver(s) == s

\* A failed assert: execution stops.
Fatal(s) == [s EXCEPT !.ok = FALSE]

\* *slot, where slot is &free_list_[order] or &page->next_free
SlotValue(s, order, slot) == IF slot = HEAD THEN s.fl[order] ELSE s.nx[slot]

\* *slot = value
SlotStore(s, order, slot, value) ==
    IF slot = HEAD THEN [s EXCEPT !.fl[order] = value]
    ELSE [s EXCEPT !.nx[slot] = value]

\* Variant of InsertScan that never advances: the block is pushed at the head.
InsertScanAtHead(s, order, slot, target) == slot

\* while (*slot && *slot < target) slot = &(*slot)->next_free;
RECURSIVE InsertScan(_, _, _, _)
InsertScan(s, order, slot, target) ==
    LET v == SlotValue(s, order, slot)
    IN  IF v # NULL /\ v < target THEN InsertScan(s, order, v, target) ELSE slot

\* Variant of InsertDuplicate that compares the target with the head of the list only.
InsertDuplicateAtHead(s, order, slot, target) == s.fl[order] = target

\* The duplicate check of insert_free_block: assert(*slot != target)
InsertDuplicate(s, order, slot, target) == SlotValue(s, order, slot) = target

\* Whether the loop of insert_free_block is left.  The pages are NumPages:
\* a walk that is still in the loop after NumPages entries is back at an
\* entry it has visited, where it decides as before, and goes round for ever.
RECURSIVE InsertScanEnds(_, _, _, _, _)
InsertScanEnds(s, order, slot, target, fuel) ==
    LET v == SlotValue(s, order, slot)
    IN  IF v # NULL /\ v < target
        THEN fuel > 0 /\ InsertScanEnds(s, order, v, target, fuel - 1)
        ELSE TRUE

\* insert_free_block(order, target) passes its assertions and never leaves
\* its loop.
InsertHangs(s, order, target) ==
    /\ s.ok
    /\ order >= 0 /\ order <= LastOrder
    /\ block_aligned(order, target)
    /\ ~InsertScanEnds(s, order, HEAD, target, NumPages)

insert_free_block(s, order, target) ==
    IF ~s.ok THEN s
    ELSE IF ~(order >= 0 /\ order <= LastOrder) THEN Fatal(s)
    ELSE IF ~block_aligned(order, target) THEN Fatal(s)
    ELSE LET slot == InsertScan(s, order, HEAD, target)
         IN  IF InsertDuplicate(s, order, slot, target) THEN Fatal(s)
             ELSE LET s1 == [s EXCEPT !.nx[target] = SlotValue(s, order, slot)]
                  IN  SlotStore(s1, order, slot, target)

\* while (*candidate_slot && *candidate_slot != target) candidate_slot = &...->next_free;
RECURSIVE RemoveScan(_, _, _, _)
RemoveScan(s, order, slot, target) ==
    LET v == SlotValue(s, order, slot)
    IN  IF v # NULL /\ v # target THEN RemoveScan(s, order, v, target) ELSE slot

\* Whether the loop of remove_free_block is left (see InsertScanEnds).
RECURSIVE RemoveScanEnds(_, _, _, _, _)
RemoveScanEnds(s, order, slot, target, fuel) ==
    LET v == SlotValue(s, order, slot)
    IN  IF v # NULL /\ v # target
        THEN fuel > 0 /\ RemoveScanEnds(s, order, v, target, fuel - 1)
        ELSE TRUE

\* remove_free_block(order, target) passes its assertions and never leaves
\* its loop.
RemoveHangs(s, order, target) ==
    /\ s.ok
    /\ order >= 0 /\ order <= LastOrder
    /\ block_aligned(order, target)
    /\ ~RemoveScanEnds(s, order, HEAD, target, NumPages)

remove_free_block(s, order, target) ==
    IF ~s.ok THEN s
    ELSE IF ~(order >= 0 /\ order <= LastOrder) THEN Fatal(s)
    ELSE IF ~block_aligned(order, target) THEN Fatal(s)
    ELSE LET slot == RemoveScan(s, order, HEAD, target)
         IN  IF SlotValue(s, order, slot) # target THEN Fatal(s)
             ELSE LET s1 == SlotStore(s, order, slot, s.nx[target])
                  IN  [s1 EXCEPT !.nx[target] = NULL]

RECURSIVE ListWalkFinds(_, _, _)
ListWalkFinds(s, cur, p) ==
    IF cur = NULL THEN FALSE
    ELSE IF cur = p THEN TRUE
    ELSE ListWalkFinds(s, s.nx[cur], p)

\* Whether the loop of is_in_free_list is left (see InsertScanEnds).
RECURSIVE ListWalkEnds(_, _, _, _)
ListWalkEnds(s, cur, p, fuel) ==
    IF cur = NULL THEN TRUE
    ELSE IF cur = p THEN TRUE
    ELSE fuel > 0 /\ ListWalkEnds(s, s.nx[cur], p, fuel - 1)

\* is_in_free_list(order, p) passes its assertion and never leaves its loop.
IsInFreeListHangs(s, order, p) ==
    /\ s.ok
    /\ order >= 0 /\ order <= LastOrder
    /\ ~ListWalkEnds(s, s.fl[order], p, NumPages)

\* Result: st = the state after the call (halted when the assertion on the
\* order fails), res = whether page p is an entry of the order's list.
is_in_free_list(s, order, p) ==
    IF ~s.ok THEN [st |-> s, res |-> FALSE]
    ELSE IF ~(order >= 0 /\ order <= LastOrder) THEN [st |-> Fatal(s), res |-> FALSE]
    ELSE [st |-> s, res |-> ListWalkFinds(s, s.fl[order], p)]

----------------------------------------------------------------------------
(* split_block and merge_buddies                                           *)

\* Variant of split_block that puts only the upper half back.
split_block_upper_only(s, order, block_start) ==
    IF ~s.ok THEN s
    ELSE IF ~(order > 0) THEN Fatal(s)
    ELSE IF ~block_aligned(order, block_start) THEN Fatal(s)
    ELSE LET s1 == remove_free_block(s, order, block_start)
             lower == order - 1
             half == pages_per_block(lower)
             left_pfn == block_start
             right_pfn == left_pfn + half
         IN  insert_free_block(s1, lower, right_pfn)

split_block(s, order, block_start) ==
    IF ~s.ok THEN s
    ELSE IF ~(order > 0) THEN Fatal(s)
    ELSE IF ~block_aligned(order, block_start) THEN Fatal(s)
    ELSE LET s1 == remove_free_block(s, order, block_start)
             lower == order - 1
             half == pages_per_block(lower)
             left_pfn == block_start
             right_pfn == left_pfn + half
             s2 == insert_free_block(s1, lower, left_pfn)
         IN  insert_free_block(s2, lower, right_pfn)

\* Variant of BuddyPfn that adds the block size instead of flipping bit `order`.
BuddyPfnByAddition(pfn, order) == pfn + pages_per_block(order)

\* u64 other_pfn = pfn ^ base;  (merge_buddies and free_pages)
BuddyPfn(pfn, order) == BitXor(pfn, pages_per_block(order))

\* Variant of MergedBasePfn that keeps the block's own pfn.
MergedBasePfnOwn(pfn, other_pfn) == pfn

\* u64 merged_base_pfn = (pfn < other_pfn) ? pfn : other_pfn;
MergedBasePfn(pfn, other_pfn) == IF pfn < other_pfn THEN pfn ELSE other_pfn

\* Variant of merge_buddies that leaves the other buddy in its list.
merge_buddies_keep_other(s, order, buddy) ==
    IF ~s.ok THEN s
    ELSE IF ~(order >= 0 /\ order < LastOrder) THEN Fatal(s)
    ELSE IF ~block_aligned(order, buddy) THEN Fatal(s)
    ELSE LET other_pfn == BuddyPfn(buddy, order)
         IN  IF ~is_in_free_list(s, order, buddy).res THEN Fatal(s)
             ELSE IF ~is_in_free_list(s, order, other_pfn).res THEN Fatal(s)
             ELSE LET s1 == remove_free_block(s, order, buddy)
                  IN  insert_free_block(s1, order + 1, MergedBasePfn(buddy, other_pfn))

\* (is_in_free_list changes nothing: a halt inside it and a failed assertion
\* on its result both leave Fatal(s).)
merge_buddies(s, order, buddy) ==
    IF ~s.ok THEN s
    ELSE IF ~(order >= 0 /\ order < LastOrder) THEN Fatal(s)
    ELSE IF ~block_aligned(order, buddy) THEN Fatal(s)
    ELSE LET other_pfn == BuddyPfn(buddy, order)
         IN  IF ~is_in_free_list(s, order, buddy).res THEN Fatal(s)
             ELSE IF ~is_in_free_list(s, order, other_pfn).res THEN Fatal(s)
             ELSE LET s1 == remove_free_block(s, order, buddy)
                      s2 == remove_free_block(s1, order, other_pfn)
                  IN  insert_free_block(s2, order + 1, MergedBasePfn(buddy, other_pfn))

----------------------------------------------------------------------------
(* free_pages                                                              *)

\* if (!is_in_free_list(cur_order, buddy)) break;
\* Result: st = halted if is_in_free_list has halted, res = the buddy is free.
BuddyIsFree(s, cur_order, buddy_pfn) == is_in_free_list(s, cur_order, buddy_pfn)

\* Variant of FreeMergeLoop with `if` in place of `while`: at most one merge.
FreeMergeOnce(s, cur_order, cur_block) ==
    IF ~s.ok THEN s
    ELSE IF ~(cur_order < LastOrder) THEN s
    ELSE LET buddy_pfn == BuddyPfn(cur_block, cur_order)
             free == BuddyIsFree(s, cur_order, buddy_pfn)
         IN  IF ~free.st.ok THEN free.st
             ELSE IF ~free.res THEN s
             ELSE merge_buddies(s, cur_order, cur_block)

\* Variant of FreeMergeLoop that also tries to merge at LastOrder (<=).
RECURSIVE FreeMergeLoopPastLast(_, _, _)
FreeMergeLoopPastLast(s, cur_order, cur_block) ==
    IF ~s.ok THEN s
    ELSE IF ~(cur_order <= LastOrder) THEN s
    ELSE LET buddy_pfn == BuddyPfn(cur_block, cur_order)
             free == BuddyIsFree(s, cur_order, buddy_pfn)
         IN  IF ~free.st.ok THEN free.st
             ELSE IF ~free.res THEN s
             ELSE FreeMergeLoopPastLast(merge_buddies(s, cur_order, cur_block),
                                        cur_order + 1,
                                        MergedBasePfn(cur_block, buddy_pfn))

\* while (cur_order < LastOrder) { ... }
RECURSIVE FreeMergeLoop(_, _, _)
FreeMergeLoop(s, cur_order, cur_block) ==
    IF ~s.ok THEN s
    ELSE IF ~(cur_order < LastOrder) THEN s
    ELSE LET buddy_pfn == BuddyPfn(cur_block, cur_order)
             free == BuddyIsFree(s, cur_order, buddy_pfn)
         IN  IF ~free.st.ok THEN free.st
             ELSE IF ~free.res THEN s
             ELSE FreeMergeLoop(merge_buddies(s, cur_order, cur_block),
                                cur_order + 1,
                                MergedBasePfn(cur_block, buddy_pfn))

\* Variant of TotalAfterFree that counts blocks instead of pages.
TotalAfterFreeByOne(tf, order) == tf + 1

\* total_free_ += pages_per_block(order);
TotalAfterFree(tf, order) == tf + pages_per_block(order)

\* free_pages up to its loop: the two assertions, insert_free_block and
\* the update of total_free_.
FreeEntry(s, block_start, order) ==
    IF ~s.ok THEN s
    ELSE IF ~(order >= 0 /\ order <= LastOrder) THEN Fatal(s)
    ELSE IF ~block_aligned(order, block_start) THEN Fatal(s)
    ELSE LET s1 == insert_free_block(s, order, block_start)
         IN  IF ~s1.ok THEN s1
             ELSE [s1 EXCEPT !.tf = TotalAfterFree(s1.tf, order)]

free_pages(s, block_start, order) ==
    FreeMergeLoop(FreeEntry(s, block_start, order), order, block_start)

----------------------------------------------------------------------------
(* allocate_pages                                                          *)

\* Variant of AllocSearch that prefers the largest non-empty order.
AllocSearchLargest(s, o) ==
    LET c == {x \in Orders : x >= o /\ s.fl[x] # NULL}
    IN  IF c = {} THEN LastOrder + 1 ELSE CHOOSE x \in c : \A y \in c : y <= x

\* for (int o = order; o <= LastOrder; o++) if (free_list_[o]) ...
\* The first order at or above o with a non-empty list, or LastOrder + 1.
RECURSIVE AllocSearch(_, _)
AllocSearch(s, o) ==
    IF o > LastOrder THEN o
    ELSE IF s.fl[o] # NULL THEN o
    ELSE AllocSearch(s, o + 1)

\* Variant of AllocSearchStart that skips the requested order.
AllocSearchStartAbove(order) == order + 1

\* int o = order;  (where the search of allocate_pages starts)
AllocSearchStart(order) == order

\* Variant of RightHalfPfn that gives back the lower half, the one being allocated.
RightHalfPfnLower(base_pfn, cur_order) == base_pfn

\* u64 right_pfn = base_pfn + pages_per_block(cur_order);
RightHalfPfn(base_pfn, cur_order) == base_pfn + pages_per_block(cur_order)

\* while (cur_order > order) { cur_order--; insert right half; }
RECURSIVE AllocSplitLoop(_, _, _, _)
AllocSplitLoop(s, base_pfn, cur_order, order) ==
    IF ~s.ok THEN s
    ELSE IF ~(cur_order > order) THEN s
    ELSE AllocSplitLoop(insert_free_block(s, cur_order - 1, RightHalfPfn(base_pfn, cur_order - 1)),
                        base_pfn, cur_order - 1, order)

\* Variant of TotalAfterAllocate that charges one page whatever the order.
TotalAfterAllocateByOne(tf, order) == tf - 1

\* total_free_ -= pages_per_block(order);
TotalAfterAllocate(tf, order) == tf - pages_per_block(order)

\* memops::pzero(ptr, count): clears count pages; the link word is the
\* first word of a page and reads as the null pointer afterwards.
pzero(s, pfn, count) ==
    [s EXCEPT !.nx = [p \in DOMAIN s.nx |->
                        IF p >= pfn /\ p < pfn + count THEN NULL ELSE s.nx[p]],
              !.bd = [p \in DOMAIN s.bd |->
                        IF p >= pfn /\ p < pfn + count THEN 0 ELSE s.bd[p]]]

\* Variant of ZeroCount that clears one page whatever the order.
ZeroCountOnePage(order) == 1

\* memops::pzero(res.base_address_ptr(), pages_per_block(order)): the page count
ZeroCount(order) == pages_per_block(order)

\* if (order < 0 || order > LastOrder) { return nullptr; }
AllocOutOfRange(s, order) == [st |-> s, res |-> NULL]

\* Result: st = the state after the call, res = the returned page or NULL.
allocate_pages(s, order, zero) ==
    IF ~s.ok THEN [st |-> s, res |-> NULL]
    ELSE IF order < 0 \/ order > LastOrder THEN AllocOutOfRange(s, order)
    ELSE LET o == AllocSearch(s, AllocSearchStart(order))
         IN  IF o > LastOrder THEN [st |-> s, res |-> NULL]
             ELSE LET block == s.fl[o]
                      s1 == remove_free_block(s, o, block)
                      s2 == AllocSplitLoop(s1, block, o, order)
                  IN  IF ~s2.ok THEN [st |-> s2, res |-> NULL]
                      ELSE LET s3 == [s2 EXCEPT !.tf = TotalAfterAllocate(s2.tf, order)]
                               s4 == IF zero THEN pzero(s3, block, ZeroCount(order))
                                     ELSE s3
                           IN  [st |-> s4, res |-> block]

----------------------------------------------------------------------------
(* insert_free_pages                                                       *)

\* Variant of InsertOrder that forgets the alignment condition.
RECURSIVE InsertOrderBySizeOnly(_, _, _)
InsertOrderBySizeOnly(order, pfn, remaining) ==
    IF order > 0 /\ pages_per_block(order) > remaining
    THEN InsertOrderBySizeOnly(order - 1, pfn, remaining)
    ELSE order

\* Variant of InsertOrder whose loop stops at order 1 (order > 1).
RECURSIVE InsertOrderStopsAtOne(_, _, _)
InsertOrderStopsAtOne(order, pfn, remaining) ==
    IF order > 1 /\ (~block_aligned(order, pfn) \/ pages_per_block(order) > remaining)
    THEN InsertOrderStopsAtOne(order - 1, pfn, remaining)
    ELSE order

\* int order = LastOrder;
\* while (order > 0 && (!block_aligned(order, pfn) || pages_per_block(order) > remaining)) order--;
RECURSIVE InsertOrder(_, _, _)
InsertOrder(order, pfn, remaining) ==
    IF order > 0 /\ (~block_aligned(order, pfn) \/ pages_per_block(order) > remaining)
    THEN InsertOrder(order - 1, pfn, remaining)
    ELSE order

\* Variant of InsertLoop that stops one page early (remaining > 1).
RECURSIVE InsertLoopStopsEarly(_, _, _)
InsertLoopStopsEarly(s, cur, remaining) ==
    IF ~s.ok THEN s
    ELSE IF ~(remaining > 1) THEN s
    ELSE LET order == InsertOrder(LastOrder, cur, remaining)
             step == pages_per_block(order)
         IN  InsertLoopStopsEarly(free_pages(s, cur, order), cur + step, remaining - step)

\* Variant of InsertStep that does not move on.
InsertStepNone(order) == 0

\* const u64 step = pages_per_block(order);
InsertStep(order) == pages_per_block(order)

\* while (remaining > 0) { ... free_pages(*cur, order); cur += step; remaining -= step; }
RECURSIVE InsertLoop(_, _, _)
InsertLoop(s, cur, remaining) ==
    IF ~s.ok THEN s
    ELSE IF ~(remaining > 0) THEN s
    ELSE LET order == InsertOrder(LastOrder, cur, remaining)
             step == InsertStep(order)
         IN  InsertLoop(free_pages(s, cur, order), cur + step, remaining - step)

insert_free_pages(s, range_start, page_count) == InsertLoop(s, range_start, page_count)

\* The free_pages calls of the loop of insert_free_pages, in order: the
\* position cur, the order chosen and the pages remaining at each call.
RECURSIVE InsertCalls(_, _)
InsertCalls(cur, remaining) ==
    IF ~(remaining > 0) THEN <<>>
    ELSE LET order == InsertOrder(LastOrder, cur, remaining)
             step == pages_per_block(order)
         IN  <<[pfn |-> cur, order |-> order, remaining |-> remaining]>>
                 \o InsertCalls(cur + step, remaining - step)

----------------------------------------------------------------------------
(* The allocator driven by its callers.                                    *)

\* The free lists, link words and counter of a state, without the halt flag.
Snapshot(s) == [fl |-> s.fl, nx |-> s.nx, tf |-> s.tf]

\* No scheduler operation yet: op = the last operation, task = its argument,
\* ret = what it returned, pre = the run queue before it, base = the run
\* queue after the last add or remove, picks = what select_next_task has
\* returned since then, in order.
NoSched == [op |-> "none", task |-> NULL, ret |-> NULL, pre |-> <<>>, base |-> <<>>, picks |-> <<>>]

\* No call is in progress.  Of a call in progress: pc = where it stands,
\* pfn, count, order, zero = its arguments, pre = the state it started from,
\* cur, remaining = the locals of insert_free_pages, lvl = cur_order (or o),
\* blk = cur_block (or base_pfn), ret = where free_pages returns to, asc =
\* every free list was strictly ascending when the call was entered, at =
\* the entry that a list walk which never ends has come to.
Idle ==
    [pc |-> "idle", pfn |-> NULL, count |-> 0, order |-> 0, zero |-> FALSE,
     pre |-> [fl |-> [o \in Orders |-> NULL], nx |-> [p \in Pages |-> NULL], tf |-> 0],
     cur |-> NULL, remaining |-> 0, lvl |-> 0, blk |-> NULL, ret |-> "idle", asc |-> TRUE,
     at |-> NULL]

\* The pages start .. start + count - 1
Run(start, count) == {p \in Pages : p >= start /\ p < start + count}

\* The constructor leaves every list empty and the counter at zero.  Memory
\* that reads as zero everywhere: its content has no part in what the
\* allocator does (InitJunk starts from memory that holds junk).
Init ==
    /\ free_list = [o \in Orders |-> NULL]
    /\ next_free = [p \in Pages |-> NULL]
    /\ body = [p \in Pages |-> 0]
    /\ total_free = 0
    /\ halted = FALSE
    /\ call = Idle
    /\ runqueue = <<>>
    /\ sched = NoSched
    /\ inserted = {}
    /\ allocated = {}
    /\ started = FALSE
    /\ last = [op |-> "none", pfn |-> NULL, order |-> 0, count |-> 0, zero |-> FALSE,
               pre |-> [fl |-> [o \in Orders |-> NULL], nx |-> [p \in Pages |-> NULL], tf |-> 0],
               rt |-> [fl |-> [o \in Orders |-> NULL], nx |-> [p \in Pages |-> NULL], tf |-> 0],
               round |-> FALSE]

\* Makes s the current state of the allocator (v: s, computed once).
Stores(s) ==
    \E v \in {s} :
        /\ free_list' = v.fl
        /\ next_free' = v.nx
        /\ body' = v.bd
        /\ total_free' = v.tf
        /\ halted' = ~v.ok

\* A call has run from its entry to its return (or halt) and left state s.
Becomes(s) ==
    /\ Stores(s)
    /\ UNCHANGED call

\* Bootstrap: insert_free_pages(range_start, page_count) over a run of pages
\* that is disjoint from every run inserted before.
InsertFreePages(start, count) ==
    /\ ~halted
    /\ ~started
    /\ start + count <= NumPages
    /\ Run(start, count) \cap inserted = {}
    /\ Becomes(insert_free_pages(State, start, count))
    /\ inserted' = inserted \cup Run(start, count)
    /\ last' = [op |-> "insert", pfn |-> start, order |-> 0, count |-> count, zero |-> FALSE,
                pre |-> Snapshot(State), rt |-> Snapshot(State), round |-> FALSE]
    /\ UNCHANGED <<allocated, started>>
    /\ UNCHANGED sched_vars

\* allocate_pages(order, flags) with an order in range.
AllocatePages(order, zero) ==
    /\ ~halted
    /\ LET a == allocate_pages(State, order, zero)
       IN  /\ Becomes(a.st)
           /\ allocated' = IF a.res # NULL THEN allocated \cup {<<a.res, order>>} ELSE allocated
           /\ last' = [op |-> "alloc", pfn |-> a.res, order |-> order, count |-> 0, zero |-> zero,
                       pre |-> Snapshot(State), rt |-> Snapshot(State), round |-> FALSE]
    /\ started' = TRUE
    /\ UNCHANGED inserted
    /\ UNCHANGED sched_vars

\* free_pages(block, order) of an outstanding allocation with its own order.
FreePages(block, order) ==
    /\ ~halted
    /\ <<block, order>> \in allocated
    /\ Becomes(free_pages(State, block, order))
    /\ allocated' = allocated \ {<<block, order>>}
    /\ LET back == last.op = "alloc" /\ last.pfn = block /\ last.order = order
       IN  last' = [op |-> "free", pfn |-> block, order |-> order, count |-> 0, zero |-> FALSE,
                    pre |-> Snapshot(State),
                    rt |-> IF back THEN last.pre ELSE Snapshot(State),
                    round |-> back]
    /\ UNCHANGED <<inserted, started>>
    /\ UNCHANGED sched_vars

Next ==
    \/ \E start \in Pages, count \in 0 .. NumPages : InsertFreePages(start, count)
    \/ \E order \in Orders, zero \in BOOLEAN : AllocatePages(order, zero)
    \/ \E block \in Pages, order \in Orders : FreePages(block, order)

Spec == Init /\ [][Next]_vars

\* A caller bug: free_pages(block, order) called again right after the
\* free_pages(block, order) that has just returned, with no allocation between.
RepeatFreePages ==
    /\ ~halted
    /\ last.op = "free"
    /\ Becomes(free_pages(State, last.pfn, last.order))
    /\ last' = [op |-> "refree", pfn |-> last.pfn, order |-> last.order, count |-> 0,
                zero |-> FALSE, pre |-> Snapshot(State), rt |-> Snapshot(State),
                round |-> FALSE]
    /\ UNCHANGED <<inserted, allocated, started>>
    /\ UNCHANGED sched_vars

\* After the repeated free the history is no longer well behaved; it ends there.
NextWellBehaved == last.op # "refree" /\ Next

NextMisuse ==
    \/ NextWellBehaved
    \/ RepeatFreePages

SpecMisuse == Init /\ [][NextMisuse]_vars

----------------------------------------------------------------------------
(* Observations of the state used by the properties.                       *)

\* The entries visited from cur by following at most fuel link words.
RECURSIVE Chain(_, _, _)
Chain(nx, cur, fuel) ==
    IF cur = NULL \/ fuel = 0 THEN <<>>
    ELSE <<cur>> \o Chain(nx, nx[cur], fuel - 1)

\* The pointer reached from cur after at most fuel link words.
RECURSIVE ChainEnd(_, _, _)
ChainEnd(nx, cur, fuel) ==
    IF cur = NULL \/ fuel = 0 THEN cur
    ELSE ChainEnd(nx, nx[cur], fuel - 1)

\* The order-o free list of snapshot s, head first.
EntriesOf(s, o) == Chain(s.nx, s.fl[o], NumPages + 1)

Entries(o) == EntriesOf(State, o)

FreeListsOf(s) == [o \in Orders |-> EntriesOf(s, o)]

BlockPages(pfn, order) == pfn .. (pfn + 2 ^ order - 1)

\* The positions <<order, index>> of all free-list entries.
EntryPositions == UNION {{<<o, i>> : i \in 1 .. Len(Entries(o))} : o \in Orders}

EntryPages(x) == BlockPages(Entries(x[1])[x[2]], x[1])

FreeCover == UNION {EntryPages(x) : x \in EntryPositions}

AllocatedCover == UNION {BlockPages(b[1], b[2]) : b \in allocated}

RECURSIVE SumFreePages(_)
SumFreePages(o) ==
    IF o > LastOrder THEN 0
    ELSE Len(Entries(o)) * (2 ^ o) + SumFreePages(o + 1)

\* s holds exactly one free block, of order k at pfn b.
SingleBlock(s, k, b) ==
    FreeListsOf(s) = [o \in Orders |-> IF o = k THEN <<b>> ELSE <<>>]

----------------------------------------------------------------------------
(* Properties.                                                             *)

\* C1: in a well-behaved history (bootstrap over disjoint runs, then
\* allocations and frees of outstanding blocks with their own order),
\* total_free is the sum over all orders o of (entries in list o) * 2^o.
C1_TotalFreeIsSum == total_free = SumFreePages(0)

\* A block was split by an allocation, another block was freed, and both
\* free pages and outstanding allocations exist.
C1_Witness ==
    /\ last.op = "free"
    /\ Cardinality(allocated) >= 2
    /\ total_free >= 3
    /\ \E o \in Orders : Len(Entries(o)) >= 2

\* C2: between operations of a well-behaved history the bootstrapped pages
\* are partitioned into pages of free-list entries and pages of outstanding
\* blocks: none is lost, none is both free and allocated, and no page lies
\* in two outstanding blocks.
C2_PagesPartitioned ==
    /\ FreeCover \cup AllocatedCover = inserted
    /\ FreeCover \cap AllocatedCover = {}
    /\ \A a, b \in allocated : a # b => BlockPages(a[1], a[2]) \cap BlockPages(b[1], b[2]) = {}

\* Blocks of two different orders are outstanding while other pages are free.
C2_Witness ==
    /\ \E a, b \in allocated : a[2] # b[2]
    /\ FreeCover # {}
    /\ last.op = "free"

\* C3: in a well-behaved history no page is covered by two free-list
\* entries, whatever their orders.
C3_FreeEntriesDisjoint ==
    \A x, y \in EntryPositions : x # y => EntryPages(x) \cap EntryPages(y) = {}

\* Free entries exist at three orders at once after an allocation split a block.
C3_Witness ==
    /\ last.op = "alloc"
    /\ last.pfn # NULL
    /\ \A o \in Orders : Len(Entries(o)) >= 1

\* C4: a second free_pages(B, o) with no allocation of B in between is
\* rejected by a fatal assertion.
C4_RepeatedFreeHalts == last.op = "refree" => halted

\* C5: after every operation of a well-behaved history no order-o list,
\* o < LastOrder, holds two buddies (pfns that differ exactly in bit o).
C5_NoFreeBuddies ==
    \A o \in Orders : o < LastOrder =>
        \A i, j \in 1 .. Len(Entries(o)) :
            Entries(o)[j] # BitXor(Entries(o)[i], 2 ^ o)

\* The free just made found its buddy free and merged with it, below LastOrder.
C5_Witness ==
    /\ last.op = "free"
    /\ last.order < LastOrder
    /\ BitXor(last.pfn, 2 ^ last.order) \in
          {EntriesOf(last.pre, last.order)[i] : i \in 1 .. Len(EntriesOf(last.pre, last.order))}
    /\ allocated # {}

\* C6: a well-behaved history never trips an assertion, and every entry of
\* the order-o list has a pfn divisible by 2^o.
C6_EntriesAligned ==
    /\ ~halted
    /\ \A o \in Orders : \A i \in 1 .. Len(Entries(o)) : Entries(o)[i] % (2 ^ o) = 0

\* A run that starts off every boundary was bootstrapped, then split and refilled.
C6_Witness ==
    /\ 0 \notin inserted
    /\ 1 \in inserted
    /\ last.op = "free"
    /\ Len(Entries(1)) >= 1
    /\ Len(Entries(0)) >= 1

\* C7: in a well-behaved history the link words from the head of every
\* list visit strictly ascending pfns and end at a null link.
C7_ListsAscending ==
    \A o \in Orders :
        /\ ChainEnd(next_free, free_list[o], NumPages + 1) = NULL
        /\ \A i, j \in 1 .. Len(Entries(o)) : i < j => Entries(o)[i] < Entries(o)[j]

\* A block was freed into the middle of a list of three or more entries.
C7_Witness ==
    /\ last.op = "free"
    /\ \E o \in Orders :
          /\ Len(Entries(o)) >= 3
          /\ \E i \in 2 .. (Len(Entries(o)) - 1) : Entries(o)[i] = last.pfn

\* C8: a successful allocate_pages(r) directly followed by
\* free_pages(result, r) leaves every free list and total_free as they were
\* before the allocation.
C8_AllocateFreeRoundTrip ==
    (last.op = "free" /\ last.round) =>
        /\ FreeListsOf(State) = FreeListsOf(last.rt)
        /\ total_free = last.rt.tf

\* The round trip split a block of the highest order down to order 0 and
\* merged it back, with other allocations outstanding.
C8_Witness ==
    /\ last.op = "free"
    /\ last.round
    /\ last.order = 0
    /\ \A o \in Orders : o < LastOrder => last.rt.fl[o] = NULL
    /\ last.rt.fl[LastOrder] # NULL
    /\ allocated # {}

\* C8, fresh allocator: one free block of order k, allocate_pages(k) then
\* free_pages(result, k): one free block of order k again.
C8_FreshWitness ==
    /\ last.op = "free"
    /\ last.round
    /\ \E k \in Orders, b \in Pages :
          /\ last.order = k
          /\ SingleBlock(last.rt, k, b)
          /\ SingleBlock(State, k, b)
          /\ total_free = 2 ^ k

\* C9: allocate_pages(order) returns null exactly when every list at
\* orders order..LastOrder is empty; then no assertion fires and the lists,
\* the link words and total_free are unchanged.
C9_NullIffExhausted ==
    last.op = "alloc" =>
        /\ (last.pfn = NULL) <=> (\A o \in Orders : o >= last.order => last.pre.fl[o] = NULL)
        /\ last.pfn = NULL => (~halted /\ Snapshot(State) = last.pre)

\* An allocation failed although smaller blocks were free.
C9_Witness ==
    /\ last.op = "alloc"
    /\ last.pfn = NULL
    /\ last.order > 0
    /\ total_free > 0

\* The allocator was bootstrapped with the 2^k pages of one order-k block
\* at pfn b and the last operation is allocate_pages(k).
C10_Case(k, b) ==
    /\ b % (2 ^ k) = 0
    /\ inserted = BlockPages(b, k)
    /\ last.op = "alloc"
    /\ last.order = k

\* C10: with a capacity of one order-k block, the first allocate_pages(k)
\* returns the block and leaves total_free at 0, and every allocate_pages(k)
\* made while that block is outstanding returns null.
C10_Exhaustion ==
    \A k \in Orders, b \in Pages :
        C10_Case(k, b) =>
            /\ SingleBlock(last.pre, k, b) =>
                  (last.pfn = b /\ total_free = 0 /\ <<b, k>> \in allocated)
            /\ (<<b, k>> \in allocated /\ ~SingleBlock(last.pre, k, b)) =>
                  (last.pfn = NULL /\ total_free = 0)

\* A second allocate_pages(k) after the first took the only block, for an
\* order of more than one page.
C10_Witness ==
    \E k \in Orders, b \in Pages :
        /\ k >= 1
        /\ C10_Case(k, b)
        /\ <<b, k>> \in allocated
        /\ last.pfn = NULL
        /\ last.pre.tf = 0

----------------------------------------------------------------------------
(* Bootstrap followed by a drain: allocate_pages(0) over and over.         *)

\* allocate_pages(0, flags) as the next call of a drain; last.count counts
\* the calls of the drain, which goes one call beyond the inserted pages.
DrainAllocatePages(zero) ==
    /\ ~halted
    /\ last.op \in {"insert", "drain"}
    /\ (last.op = "drain" => last.count <= Cardinality(inserted))
    /\ LET a == allocate_pages(State, 0, zero)
       IN  /\ Becomes(a.st)
           /\ allocated' = IF a.res # NULL THEN allocated \cup {<<a.res, 0>>} ELSE allocated
           /\ last' = [op |-> "drain", pfn |-> a.res, order |-> 0,
                       count |-> IF last.op = "drain" THEN last.count + 1 ELSE 1,
                       zero |-> zero, pre |-> Snapshot(State), rt |-> Snapshot(State),
                       round |-> FALSE]
    /\ started' = TRUE
    /\ UNCHANGED inserted
    /\ UNCHANGED sched_vars

NextDrain ==
    \/ \E start \in Pages, count \in 0 .. NumPages : InsertFreePages(start, count)
    \/ \E zero \in BOOLEAN : DrainAllocatePages(zero)

SpecDrain == Init /\ [][NextDrain]_vars

\* The pages covered by the free-list entries of s.
CoverOf(s) ==
    UNION {UNION {BlockPages(EntriesOf(s, o)[i], o) : i \in 1 .. Len(EntriesOf(s, o))} :
           o \in Orders}

\* C11: insert_free_pages(start, count) over pages that no free list covers
\* adds entries that cover exactly start .. start+count-1, without overlap
\* and without gap; the allocate_pages(0) calls that follow return each
\* bootstrapped page exactly once, and null after that.
C11_BootstrapCoverage ==
    /\ last.op = "insert" =>
          /\ ~halted
          /\ CoverOf(last.pre) \cap Run(last.pfn, last.count) = {}
          /\ FreeCover = CoverOf(last.pre) \cup Run(last.pfn, last.count)
          /\ \A x, y \in EntryPositions : x # y => EntryPages(x) \cap EntryPages(y) = {}
          /\ total_free = last.pre.tf + last.count
    /\ last.op = "drain" =>
          /\ ~halted
          /\ allocated \subseteq (inserted \X {0})
          /\ IF last.count <= Cardinality(inserted)
             THEN /\ last.pfn \in inserted
                  /\ Cardinality(allocated) = last.count
                  /\ last.count = Cardinality(inserted) => {b[1] : b \in allocated} = inserted
             ELSE last.pfn = NULL

\* insert_free_pages(3, 5), five allocations that took pages 3..7, and a sixth call.
C11_Witness ==
    /\ inserted = 3 .. 7
    /\ last.op = "drain"
    /\ last.count = 6
    /\ last.pfn = NULL
    /\ {b[1] : b \in allocated} = 3 .. 7

----------------------------------------------------------------------------
(* Coalescing of two order-0 buddies.                                      *)

\* The entries of the order-o list of s, as a set.
EntrySetOf(s, o) == {EntriesOf(s, o)[i] : i \in 1 .. Len(EntriesOf(s, o))}

\* What is left in s once the order-0 buddies p and p+1 (p even) are both
\* free, where s0 is the state before both frees: neither is an order-0
\* entry; the pair is the order-1 entry p, unless the order-1 buddy of p was
\* free in s0, in which case p went further up.
PairCoalesced(s0, s, p) ==
    /\ s.ok
    /\ p \notin EntrySetOf(s, 0)
    /\ (p + 1) \notin EntrySetOf(s, 0)
    /\ IF 1 < LastOrder /\ BitXor(p, 2) \in EntrySetOf(s0, 1)
       THEN /\ p \notin EntrySetOf(s, 1)
            /\ \E o \in Orders : o >= 2 /\ (p - (p % (2 ^ o))) \in EntrySetOf(s, o)
       ELSE p \in EntrySetOf(s, 1)

\* C12: when both order-0 buddies of a pair are free again, the second
\* free_pages(_, 0) has removed both from the order-0 list and left the
\* order-1 block at the lower pfn (or merged that one upward); freeing two
\* outstanding buddies in either order gives the same free lists.
C12_BuddiesCoalesce ==
    /\ (last.op = "free" /\ last.order = 0 /\ LastOrder >= 1
          /\ BitXor(last.pfn, 1) \in EntrySetOf(last.pre, 0)) =>
          PairCoalesced(last.pre, State, MergedBasePfn(last.pfn, BitXor(last.pfn, 1)))
    /\ \A p \in Pages :
          (p % 2 = 0 /\ LastOrder >= 1 /\ <<p, 0>> \in allocated /\ <<p + 1, 0>> \in allocated) =>
              LET lowFirst == free_pages(free_pages(State, p, 0), p + 1, 0)
                  highFirst == free_pages(free_pages(State, p + 1, 0), p, 0)
              IN  /\ PairCoalesced(State, lowFirst, p)
                  /\ PairCoalesced(State, highFirst, p)
                  /\ FreeListsOf(lowFirst) = FreeListsOf(highFirst)
                  /\ lowFirst.tf = highFirst.tf

\* The upper buddy was freed first, the lower one second; the pair now is
\* one order-1 entry and other blocks are still outstanding.
C12_Witness ==
    /\ last.op = "free"
    /\ last.order = 0
    /\ last.pfn % 2 = 0
    /\ (last.pfn + 1) \in EntrySetOf(last.pre, 0)
    /\ last.pfn \in EntrySetOf(State, 1)
    /\ Entries(0) = <<>>
    /\ allocated # {}

----------------------------------------------------------------------------
(* split_block and merge_buddies called on their own.                      *)

\* split_block(order, block) for a block that is an entry of the order list.
SplitBlock(order, block) ==
    /\ ~halted
    /\ last.op \notin {"split", "merge"}
    /\ order >= 1
    /\ block \in EntrySetOf(State, order)
    /\ Becomes(split_block(State, order, block))
    /\ last' = [op |-> "split", pfn |-> block, order |-> order, count |-> 0, zero |-> FALSE,
                pre |-> Snapshot(State), rt |-> Snapshot(State), round |-> FALSE]
    /\ UNCHANGED <<inserted, allocated, started>>
    /\ UNCHANGED sched_vars

\* merge_buddies(order - 1, left half) right after split_block(order, block).
MergeBuddies ==
    /\ ~halted
    /\ last.op = "split"
    /\ Becomes(merge_buddies(State, last.order - 1, last.pfn))
    /\ last' = [op |-> "merge", pfn |-> last.pfn, order |-> last.order, count |-> 0,
                zero |-> FALSE, pre |-> Snapshot(State), rt |-> last.pre, round |-> TRUE]
    /\ UNCHANGED <<inserted, allocated, started>>
    /\ UNCHANGED sched_vars

\* The well-behaved operations, while no split is pending and none was undone.
NextBeforeSplit ==
    /\ last.op \notin {"split", "merge"}
    /\ \/ \E start \in Pages, count \in 0 .. NumPages : InsertFreePages(start, count)
       \/ \E order \in Orders : AllocatePages(order, FALSE)
       \/ \E block \in Pages, order \in Orders : FreePages(block, order)

NextSplitMerge ==
    \/ NextBeforeSplit
    \/ \E order \in Orders, block \in Pages : SplitBlock(order, block)
    \/ MergeBuddies

SpecSplitMerge == Init /\ [][NextSplitMerge]_vars

\* C13: split_block(o, B) for an entry B of list o, followed by
\* merge_buddies(o-1, left half of B), trips no assertion, leaves B in
\* list o, no half of B in list o-1, and every list, every link word and
\* total_free as before the split.
C13_SplitMergeInverse ==
    /\ last.op = "split" =>
          /\ ~halted
          /\ last.pfn \notin EntrySetOf(State, last.order)
          /\ EntrySetOf(State, last.order - 1) =
                EntrySetOf(last.pre, last.order - 1)
                   \cup {last.pfn, last.pfn + 2 ^ (last.order - 1)}
          /\ total_free = last.pre.tf
    /\ last.op = "merge" =>
          /\ ~halted
          /\ Len(SelectSeq(Entries(last.order), LAMBDA e : e = last.pfn)) = 1
          /\ last.pfn \notin EntrySetOf(State, last.order - 1)
          /\ (last.pfn + 2 ^ (last.order - 1)) \notin EntrySetOf(State, last.order - 1)
          /\ FreeListsOf(State) = FreeListsOf(last.rt)
          /\ Snapshot(State) = last.rt

\* A block was split and merged back while the lists of both orders held
\* other entries and blocks were outstanding.
C13_Witness ==
    /\ last.op = "merge"
    /\ Len(Entries(last.order)) >= 2
    /\ Len(Entries(last.order - 1)) >= 1
    /\ allocated # {}

----------------------------------------------------------------------------
(* Caller errors: an order out of range, a free with the wrong order.      *)

\* The well-behaved operations, for as long as no caller error was made.
NextPlain ==
    /\ last.op \in {"none", "insert", "alloc", "free"}
    /\ \/ \E start \in Pages, count \in 0 .. NumPages : InsertFreePages(start, count)
       \/ \E order \in Orders : AllocatePages(order, FALSE)
       \/ \E block \in Pages, order \in Orders : FreePages(block, order)

\* allocate_pages(order, flags) with order = -1 or order = LastOrder + 1.
AllocateBadOrder(order, zero) ==
    /\ ~halted
    /\ last.op \in {"none", "insert", "alloc", "free"}
    /\ order \notin Orders
    /\ LET a == allocate_pages(State, order, zero)
       IN  /\ Becomes(a.st)
           /\ allocated' = IF a.res # NULL THEN allocated \cup {<<a.res, order>>} ELSE allocated
           /\ last' = [op |-> "allocbad", pfn |-> a.res, order |-> order, count |-> 0,
                       zero |-> zero, pre |-> Snapshot(State), rt |-> Snapshot(State),
                       round |-> FALSE]
    /\ started' = TRUE
    /\ UNCHANGED inserted
    /\ UNCHANGED sched_vars

NextBadOrder ==
    \/ NextPlain
    \/ \E order \in {-1, LastOrder + 1}, zero \in BOOLEAN : AllocateBadOrder(order, zero)

SpecBadOrder == Init /\ [][NextBadOrder]_vars

\* C14: allocate_pages with an order below 0 or above LastOrder halts with
\* a fatal invariant violation instead of returning null.  (The code returns
\* null at lines 216-218 and halts in no state.)
C14_BadOrderIsFatal == last.op = "allocbad" => halted

\* free_pages(block, order) for an outstanding block that was allocated
\* with another order, where the block's pfn is aligned to the order given.
FreeWrongOrder(block, order) ==
    /\ ~halted
    /\ last.op \in {"none", "insert", "alloc", "free"}
    /\ \E b \in allocated : b[1] = block /\ b[2] # order
    /\ block_aligned(order, block)
    /\ Becomes(free_pages(State, block, order))
    /\ allocated' = {b \in allocated : b[1] # block}
    /\ last' = [op |-> "freebad", pfn |-> block, order |-> order, count |-> 0,
                zero |-> FALSE, pre |-> Snapshot(State), rt |-> Snapshot(State),
                round |-> FALSE]
    /\ UNCHANGED <<inserted, started>>
    /\ UNCHANGED sched_vars

NextWrongOrder ==
    \/ NextPlain
    \/ \E block \in Pages, order \in Orders : FreeWrongOrder(block, order)

SpecWrongOrder == Init /\ [][NextWrongOrder]_vars

\* C15: free_pages(B, o) with an order other than the one B was allocated
\* with (pfn(B) divisible by 2^o) halts, with no list and no counter changed.
C15_WrongOrderIsFatal ==
    last.op = "freebad" => (halted /\ Snapshot(State) = last.pre)

----------------------------------------------------------------------------
(* The effect of a successful allocation.                                  *)

\* C17: a successful allocate_pages(r) returns the head p (lowest pfn) of
\* the list of the smallest non-empty order o >= r; list o loses p, every
\* list j in r..o-1 gains exactly p + 2^j, no other entry changes, and
\* total_free drops by 2^r.
C17_AllocateEffect ==
    (last.op = "alloc" /\ last.pfn # NULL) =>
        LET r == last.order
            cand == {x \in Orders : x >= r /\ last.pre.fl[x] # NULL}
            o == CHOOSE x \in cand : \A y \in cand : x <= y
            p == EntriesOf(last.pre, o)[1]
        IN  /\ ~halted
            /\ cand # {}
            /\ last.pfn = p
            /\ \A e \in EntrySetOf(last.pre, o) : p <= e
            /\ \A j \in Orders :
                  IF j = o THEN Entries(j) = Tail(EntriesOf(last.pre, j))
                  ELSE IF j >= r /\ j < o
                  THEN /\ EntrySetOf(State, j) = EntrySetOf(last.pre, j) \cup {p + 2 ^ j}
                       /\ Len(Entries(j)) = Len(EntriesOf(last.pre, j)) + 1
                  ELSE Entries(j) = EntriesOf(last.pre, j)
            /\ total_free = last.pre.tf - 2 ^ r

\* An allocation that went two orders up for its block, whose list held
\* another entry, with two other blocks outstanding.
C17_Witness ==
    /\ last.op = "alloc"
    /\ last.pfn # NULL
    /\ last.order + 2 <= LastOrder
    /\ last.pre.fl[last.order] = NULL
    /\ last.pre.fl[last.order + 1] = NULL
    /\ Cardinality(allocated) >= 3
    /\ Len(Entries(last.order + 1)) = 1

----------------------------------------------------------------------------
(* The decomposition made by insert_free_pages.                            *)

\* The state whose lists, link words and counter are those of a snapshot.
StateOf(snap) == [fl |-> snap.fl, nx |-> snap.nx, bd |-> body, tf |-> snap.tf, ok |-> TRUE]

\* free_pages applied to the blocks of calls, one after the other.
RECURSIVE ApplyFrees(_, _)
ApplyFrees(s, calls) ==
    IF calls = <<>> THEN s
    ELSE ApplyFrees(free_pages(s, Head(calls).pfn, Head(calls).order), Tail(calls))

RECURSIVE SumOfSizes(_)
SumOfSizes(calls) ==
    IF calls = <<>> THEN 0 ELSE 2 ^ Head(calls).order + SumOfSizes(Tail(calls))

\* C18: every block that insert_free_pages hands to free_pages has the
\* largest order o <= LastOrder with the position aligned to 2^o and
\* 2^o <= remaining; the blocks follow each other without gap, remaining
\* never drops below zero, and the sizes add up to page_count.
C18_GreedyDecomposition ==
    last.op = "insert" =>
        LET calls == InsertCalls(last.pfn, last.count)
        IN  /\ ~halted
            /\ Snapshot(ApplyFrees(StateOf(last.pre), calls)) = Snapshot(State)
            /\ \A i \in 1 .. Len(calls) :
                  LET c == calls[i]
                  IN  /\ c.order \in Orders
                      /\ c.pfn % (2 ^ c.order) = 0
                      /\ 2 ^ c.order <= c.remaining
                      /\ \A o \in Orders :
                            o > c.order => ~(c.pfn % (2 ^ o) = 0 /\ 2 ^ o <= c.remaining)
                      /\ c.remaining - 2 ^ c.order >= 0
                      /\ IF i = 1
                         THEN c.pfn = last.pfn /\ c.remaining = last.count
                         ELSE /\ c.pfn = calls[i - 1].pfn + 2 ^ calls[i - 1].order
                              /\ c.remaining = calls[i - 1].remaining - 2 ^ calls[i - 1].order
                      /\ i = Len(calls) => c.remaining - 2 ^ c.order = 0
            /\ SumOfSizes(calls) = last.count
            /\ last.count > 0 => calls # <<>>

\* A run that needs blocks of three different sizes: insert_free_pages(1, 7)
\* hands over pages 1, 2-3 and 4-7.
C18_Witness ==
    /\ last.op = "insert"
    /\ last.pfn = 1
    /\ last.count = 7
    /\ LastOrder >= 2
    /\ Len(InsertCalls(last.pfn, last.count)) = 3

----------------------------------------------------------------------------
(* Where coalescing stops.                                                 *)

RECURSIVE CountEntries(_, _)
CountEntries(s, o) ==
    IF o > LastOrder THEN 0 ELSE Len(EntriesOf(s, o)) + CountEntries(s, o + 1)

\* The start of the order-o block that holds page p.
BlockStart(p, o) == p - (p % (2 ^ o))

\* The merges made by the last free_pages: every merge replaces two entries by one.
MergesOfLastFree == CountEntries(last.pre, 0) + 1 - CountEntries(State, 0)

\* C19: free_pages(B, o), called directly or by bootstrap, trips no
\* assertion and makes at most LastOrder - o merges; it merges at order j exactly while the buddy of the current
\* block is in list j and j < LastOrder, and the block it ends with is an
\* entry of its order, also at LastOrder with the neighbouring LastOrder
\* block free; no entry above LastOrder comes into being.
C19_CoalescingCapped ==
    /\ DOMAIN free_list = Orders
    /\ last.op \in {"insert", "free"} => ~halted
    /\ last.op = "free" =>
          LET n == MergesOfLastFree
              k == last.order + n
          IN  /\ n >= 0
              /\ n <= LastOrder - last.order
              /\ \A j \in Orders :
                    (j >= last.order /\ j < k) =>
                        BitXor(BlockStart(last.pfn, j), 2 ^ j) \in EntrySetOf(last.pre, j)
              /\ k < LastOrder =>
                    BitXor(BlockStart(last.pfn, k), 2 ^ k) \notin EntrySetOf(last.pre, k)
              /\ BlockStart(last.pfn, k) \in EntrySetOf(State, k)
              /\ total_free = last.pre.tf + 2 ^ last.order

\* A free of one page coalesced all the way up to LastOrder and stopped
\* there although the neighbouring LastOrder block is free as well.
C19_Witness ==
    /\ last.op = "free"
    /\ last.order = 0
    /\ MergesOfLastFree = LastOrder
    /\ BlockStart(last.pfn, LastOrder) \in EntrySetOf(State, LastOrder)
    /\ BitXor(BlockStart(last.pfn, LastOrder), 2 ^ LastOrder) \in EntrySetOf(State, LastOrder)

(***************************************************************************)
(* Zero-fill.  The allocator's state does not depend on what the pages     *)
(* hold outside the link words of free-list entries, so the zero flag only *)
(* shows on memory that does not already read as zero: SpecJunk runs the   *)
(* same operations from memory that holds junk in every word.              *)
(***************************************************************************)

\* The constructor's state over memory whose every word holds junk.
InitJunk ==
    /\ free_list = [o \in Orders |-> NULL]
    /\ next_free = [p \in Pages |-> JUNK]
    /\ body = [p \in Pages |-> 1]
    /\ total_free = 0
    /\ halted = FALSE
    /\ call = Idle
    /\ runqueue = <<>>
    /\ sched = NoSched
    /\ inserted = {}
    /\ allocated = {}
    /\ started = FALSE
    /\ last = [op |-> "none", pfn |-> NULL, order |-> 0, count |-> 0, zero |-> FALSE,
               pre |-> [fl |-> [o \in Orders |-> NULL], nx |-> [p \in Pages |-> JUNK], tf |-> 0],
               rt |-> [fl |-> [o \in Orders |-> NULL], nx |-> [p \in Pages |-> JUNK], tf |-> 0],
               round |-> FALSE]

\* The number of leading pages of memory that SpecJunk hands to the allocator.
JunkPages == 5

\* The operations of Next over the first JunkPages pages.
NextJunk ==
    \/ \E start \in Pages, count \in 0 .. NumPages :
            start + count <= JunkPages /\ InsertFreePages(start, count)
    \/ \E order \in Orders, zero \in BOOLEAN : AllocatePages(order, zero)
    \/ \E block \in Pages, order \in Orders : FreePages(block, order)

SpecJunk == InitJunk /\ [][NextJunk]_vars

\* Page p reads as zero: its first word is the null pointer and so is the rest.
ReadsAsZero(p) == next_free[p] = NULL /\ body[p] = 0

\* The pages of the free-list entries of state s.
FreePagesOf(s) ==
    UNION {UNION {BlockPages(EntriesOf(s, o)[i], o) : i \in 1 .. Len(EntriesOf(s, o))} : o \in Orders}

\* C16: when allocate_pages has succeeded with the zero flag set, every page
\* of the returned block of 2^order pages reads as zero, its first word (the
\* former link word) included, and the zero-fill has touched nothing else: the
\* free lists, the link words and the content of every page outside the block
\* are what the same call without the flag leaves.
C16_ZeroFill ==
    (last.op = "alloc" /\ last.pfn # NULL /\ last.zero) =>
        LET block == BlockPages(last.pfn, last.order)
            plain == allocate_pages(StateOf(last.pre), last.order, FALSE).st
        IN  /\ \A p \in block : ReadsAsZero(p)
            /\ free_list = plain.fl
            /\ \A p \in Pages \ block : next_free[p] = plain.nx[p]
            /\ \A o \in Orders : Entries(o) = EntriesOf(plain, o)
            /\ FreePagesOf(State) \cap block = {}

\* A zero-filled allocation of more than one page whose pages held junk, made
\* while free lists hold linked entries.
C16_Witness ==
    /\ last.op = "alloc" /\ last.pfn # NULL /\ last.zero /\ last.order >= 1
    /\ \A p \in BlockPages(last.pfn, last.order) : ReadsAsZero(p)
    /\ \E p \in Pages : body[p] = 1
    /\ \E o \in Orders : Len(Entries(o)) >= 2
    /\ ~halted

(***************************************************************************)
(* Termination.  SpecSteps runs the three operations one loop iteration    *)
(* at a time: a call is entered by a Call action, each further action is   *)
(* one test of a loop condition together with the body it selects, and the *)
(* call is over when call is Idle again or the allocator has halted.  The  *)
(* calls are any calls, misuse included: any range, any block, any order,  *)
(* made in any state whose free lists are finite null-terminated chains;   *)
(* the initial states are such states, sorted or not.                      *)
(***************************************************************************)

\* The calls of SpecSteps name the pages below CallPages.
CallPages == 3

\* Misuse can raise total_free without limit, and lower it without limit:
\* calls are entered while the counter lies in 0 .. MaxTotalFree.
MaxTotalFree == 4

CounterInBounds == total_free >= 0 /\ total_free <= MaxTotalFree

\* The free lists an initial state of SpecSteps may hold: the order-0 list
\* is any chain of ChainLen distinct pages at most, in any sequence.
ChainLen == 2

ChainSeqs ==
    {q \in UNION {[1 .. n -> 0 .. (CallPages - 1)] : n \in 0 .. ChainLen} :
        \A i, j \in 1 .. Len(q) : i # j => q[i] # q[j]}

\* The allocator with the chain q as its order-0 list and the counter to
\* match; every other list is empty.
InitChains ==
    /\ \E q \in ChainSeqs :
          /\ free_list = [o \in Orders |-> IF o = 0 /\ q # <<>> THEN q[1] ELSE NULL]
          /\ next_free = [p \in Pages |->
                            IF \E i \in 1 .. (Len(q) - 1) : q[i] = p
                            THEN q[(CHOOSE i \in 1 .. (Len(q) - 1) : q[i] = p) + 1]
                            ELSE NULL]
          /\ total_free = Len(q)
    /\ body = [p \in Pages |-> 0]
    /\ halted = FALSE
    /\ call = Idle
    /\ runqueue = <<>>
    /\ sched = NoSched
    /\ inserted = {}
    /\ allocated = {}
    /\ started = FALSE
    /\ last = [op |-> "none", pfn |-> NULL, order |-> 0, count |-> 0, zero |-> FALSE,
               pre |-> [fl |-> [o \in Orders |-> NULL], nx |-> [p \in Pages |-> NULL], tf |-> 0],
               rt |-> [fl |-> [o \in Orders |-> NULL], nx |-> [p \in Pages |-> NULL], tf |-> 0],
               round |-> FALSE]

\* Every free list is a finite chain that ends in the null pointer.
ChainsFinite == \A o \in Orders : ChainEnd(next_free, free_list[o], NumPages) = NULL

\* The chain from cur ends in the null pointer and every entry of it lies
\* above the one before (prev).
RECURSIVE Ascends(_, _, _)
Ascends(nx, prev, cur) ==
    IF cur = NULL THEN TRUE
    ELSE cur > prev /\ Ascends(nx, cur, nx[cur])

\* Every free list is a strictly ascending chain that ends in the null pointer.
ChainsAscending == \A o \in Orders : Ascends(next_free, HEAD, free_list[o])

\* The call in progress enters a walk of the order's list that never ends:
\* the walk is at the first entry of the list.
Walking(c, order) ==
    /\ call' = [c EXCEPT !.pc = "walking", !.at = free_list[order]]
    /\ UNCHANGED <<free_list, next_free, body, total_free, halted>>

\* One more turn of the loop of a walk that never ends: on to the next entry.
WalkOn ==
    /\ ~halted
    /\ call.pc = "walking"
    /\ call' = [call EXCEPT !.at = next_free[call.at]]
    /\ UNCHANGED <<free_list, next_free, body, total_free, halted,
                   inserted, allocated, started, last>>
    /\ UNCHANGED sched_vars

\* insert_free_pages(range_start, page_count) is entered (lines 64-65).
CallInsertFreePages(start, count) ==
    /\ ~halted
    /\ call.pc = "idle"
    /\ ChainsFinite
    /\ CounterInBounds
    /\ start + count <= CallPages
    /\ call' = [Idle EXCEPT !.pc = "insert_loop", !.pfn = start, !.count = count,
                            !.pre = Snapshot(State), !.cur = start, !.remaining = count,
                            !.asc = ChainsAscending]
    /\ UNCHANGED <<free_list, next_free, body, total_free, halted,
                   inserted, allocated, started, last>>
    /\ UNCHANGED sched_vars

\* while (remaining > 0): the test, the choice of the order and the call of
\* free_pages up to its loop; or the return.
InsertLoopTest ==
    /\ ~halted
    /\ call.pc = "insert_loop"
    /\ IF call.remaining > 0
       THEN LET order == InsertOrder(LastOrder, call.cur, call.remaining)
            IN  IF InsertHangs(State, order, call.cur)
                THEN Walking(call, order)
                ELSE /\ Stores(FreeEntry(State, call.cur, order))
                     /\ call' = [call EXCEPT !.pc = "free_loop", !.order = order, !.lvl = order,
                                             !.blk = call.cur, !.ret = "insert_step"]
       ELSE /\ call' = Idle
            /\ UNCHANGED <<free_list, next_free, body, total_free, halted>>
    /\ UNCHANGED <<inserted, allocated, started, last>>
    /\ UNCHANGED sched_vars

\* cur += step; remaining -= step;
InsertAdvance ==
    /\ ~halted
    /\ call.pc = "insert_step"
    /\ call' = [call EXCEPT !.pc = "insert_loop",
                            !.cur = call.cur + InsertStep(call.order),
                            !.remaining = call.remaining - InsertStep(call.order)]
    /\ UNCHANGED <<free_list, next_free, body, total_free, halted,
                   inserted, allocated, started, last>>
    /\ UNCHANGED sched_vars

\* free_pages(block, order) is entered and runs up to its loop.
CallFreePages(block, order) ==
    /\ ~halted
    /\ call.pc = "idle"
    /\ ChainsFinite
    /\ CounterInBounds
    /\ LET c == [Idle EXCEPT !.pc = "free_loop", !.pfn = block, !.order = order,
                             !.pre = Snapshot(State), !.lvl = order, !.blk = block,
                             !.asc = ChainsAscending]
       IN  IF InsertHangs(State, order, block)
           THEN Walking(c, order)
           ELSE /\ Stores(FreeEntry(State, block, order))
                /\ call' = c
    /\ UNCHANGED <<inserted, allocated, started, last>>
    /\ UNCHANGED sched_vars

\* The walks of one passage through the loop of free_pages, up to the first
\* remove_free_block of merge_buddies: is_in_free_list(cur_order, buddy),
\* then in merge_buddies is_in_free_list of the block and of the other
\* block, then the walk of remove_free_block; one of them never ends.
FreeLoopHangs(s, lvl, blk) ==
    /\ lvl < LastOrder
    /\ \/ IsInFreeListHangs(s, lvl, BuddyPfn(blk, lvl))
       \/ /\ is_in_free_list(s, lvl, BuddyPfn(blk, lvl)).res
          /\ block_aligned(lvl, blk)
          /\ \/ IsInFreeListHangs(s, lvl, blk)
             \/ /\ is_in_free_list(s, lvl, blk).res
                /\ RemoveHangs(s, lvl, blk)

\* while (cur_order < LastOrder): the test of the loop condition and of the
\* buddy, then either the call of merge_buddies up to its first
\* remove_free_block, or the exit by the loop condition or by break, back to
\* where free_pages was called from.
FreeLoopTest ==
    /\ ~halted
    /\ call.pc = "free_loop"
    /\ IF FreeLoopHangs(State, call.lvl, call.blk)
       THEN Walking(call, call.lvl)
       ELSE LET buddy_pfn == BuddyPfn(call.blk, call.lvl)
                free == BuddyIsFree(State, call.lvl, buddy_pfn)
            IN  IF call.lvl < LastOrder /\ ~free.st.ok
                THEN /\ Stores(free.st)
                     /\ UNCHANGED call
                ELSE IF call.lvl < LastOrder /\ free.res
                THEN /\ Stores(IF ~(call.lvl >= 0 /\ call.lvl < LastOrder) THEN Fatal(State)
                               ELSE IF ~block_aligned(call.lvl, call.blk) THEN Fatal(State)
                               ELSE IF ~is_in_free_list(State, call.lvl, call.blk).res THEN Fatal(State)
                               ELSE IF ~is_in_free_list(State, call.lvl, buddy_pfn).res THEN Fatal(State)
                               ELSE remove_free_block(State, call.lvl, call.blk))
                     /\ call' = [call EXCEPT !.pc = "merge_other"]
                ELSE /\ call' = IF call.ret = "idle" THEN Idle ELSE [call EXCEPT !.pc = call.ret]
                     /\ UNCHANGED <<free_list, next_free, body, total_free, halted>>
    /\ UNCHANGED <<inserted, allocated, started, last>>
    /\ UNCHANGED sched_vars

\* merge_buddies: remove_free_block(order, other);
MergeRemoveOther ==
    /\ ~halted
    /\ call.pc = "merge_other"
    /\ IF RemoveHangs(State, call.lvl, BuddyPfn(call.blk, call.lvl))
       THEN Walking(call, call.lvl)
       ELSE /\ Stores(remove_free_block(State, call.lvl, BuddyPfn(call.blk, call.lvl)))
            /\ call' = [call EXCEPT !.pc = "merge_insert"]
    /\ UNCHANGED <<inserted, allocated, started, last>>
    /\ UNCHANGED sched_vars

\* merge_buddies: insert_free_block(order + 1, merged); then, back in the
\* loop of free_pages: cur_block = merged; cur_order++;
MergeInsert ==
    /\ ~halted
    /\ call.pc = "merge_insert"
    /\ LET merged == MergedBasePfn(call.blk, BuddyPfn(call.blk, call.lvl))
       IN  IF InsertHangs(State, call.lvl + 1, merged)
           THEN Walking(call, call.lvl + 1)
           ELSE /\ Stores(insert_free_block(State, call.lvl + 1, merged))
                /\ call' = [call EXCEPT !.pc = "free_loop", !.blk = merged, !.lvl = call.lvl + 1]
    /\ UNCHANGED <<inserted, allocated, started, last>>
    /\ UNCHANGED sched_vars

\* allocate_pages(order, flags) is entered: with an order out of range it
\* returns null at once, otherwise the search starts.
CallAllocatePages(order, zero) ==
    /\ ~halted
    /\ call.pc = "idle"
    /\ ChainsFinite
    /\ CounterInBounds
    /\ IF order < 0 \/ order > LastOrder
       THEN /\ Stores(AllocOutOfRange(State, order).st)
            /\ call' = Idle
       ELSE /\ call' = [Idle EXCEPT !.pc = "alloc_search", !.order = order, !.zero = zero,
                                    !.pre = Snapshot(State), !.lvl = AllocSearchStart(order),
                                    !.asc = ChainsAscending]
            /\ UNCHANGED <<free_list, next_free, body, total_free, halted>>
    /\ UNCHANGED <<inserted, allocated, started, last>>
    /\ UNCHANGED sched_vars

\* for (int o = order; o <= LastOrder; o++): one test of the loop condition
\* and of free_list_[o]; a block found is taken off its list.
AllocSearchTest ==
    /\ ~halted
    /\ call.pc = "alloc_search"
    /\ IF call.lvl > LastOrder
       THEN /\ call' = Idle
            /\ UNCHANGED <<free_list, next_free, body, total_free, halted>>
       ELSE IF free_list[call.lvl] # NULL
       THEN IF RemoveHangs(State, call.lvl, free_list[call.lvl])
            THEN Walking(call, call.lvl)
            ELSE /\ Stores(remove_free_block(State, call.lvl, free_list[call.lvl]))
                 /\ call' = [call EXCEPT !.pc = "alloc_split", !.blk = free_list[call.lvl]]
       ELSE /\ call' = [call EXCEPT !.lvl = call.lvl + 1]
            /\ UNCHANGED <<free_list, next_free, body, total_free, halted>>
    /\ UNCHANGED <<inserted, allocated, started, last>>
    /\ UNCHANGED sched_vars

\* while (cur_order > order): one iteration, or the rest of the call: the
\* counter, the zero-fill and the return of the block.
AllocSplitTest ==
    /\ ~halted
    /\ call.pc = "alloc_split"
    /\ IF call.lvl > call.order
       THEN IF InsertHangs(State, call.lvl - 1, RightHalfPfn(call.blk, call.lvl - 1))
            THEN Walking(call, call.lvl - 1)
            ELSE /\ Stores(insert_free_block(State, call.lvl - 1, RightHalfPfn(call.blk, call.lvl - 1)))
                 /\ call' = [call EXCEPT !.lvl = call.lvl - 1]
       ELSE LET s3 == [State EXCEPT !.tf = TotalAfterAllocate(total_free, call.order)]
                s4 == IF call.zero THEN pzero(s3, call.blk, ZeroCount(call.order)) ELSE s3
            IN  /\ Stores(s4)
                /\ call' = Idle
    /\ UNCHANGED <<inserted, allocated, started, last>>
    /\ UNCHANGED sched_vars

\* A call in progress executes its next step.
Step ==
    \/ InsertLoopTest
    \/ InsertAdvance
    \/ FreeLoopTest
    \/ MergeRemoveOther
    \/ MergeInsert
    \/ AllocSearchTest
    \/ AllocSplitTest
    \/ WalkOn

NextSteps ==
    \/ \E start \in 0 .. (CallPages - 1), count \in 0 .. CallPages :
          CallInsertFreePages(start, count)
    \/ \E order \in -1 .. LastOrder + 1, zero \in BOOLEAN : CallAllocatePages(order, zero)
    \/ \E block \in 0 .. (CallPages - 1), order \in -1 .. LastOrder + 1 :
          CallFreePages(block, order)
    \/ Step

\* The kernel runs a call without suspending it: a call in progress takes
\* its next step.  Callers are not obliged to make calls.
SpecSteps == InitChains /\ [][NextSteps]_vars /\ WF_vars(Step)

\* The call in progress is over.
CallOver == call.pc = "idle" \/ halted

\* The steps add up to the calls: when a call returns, the allocator is in
\* the state that the operation leaves when applied to the state at entry.
StepsAgree ==
    [][(call.pc # "idle" /\ call'.pc = "idle") =>
         Snapshot(State)' =
            CASE call.pc = "insert_loop" ->
                    Snapshot(insert_free_pages(StateOf(call.pre), call.pfn, call.count))
              [] call.pc = "free_loop" ->
                    Snapshot(free_pages(StateOf(call.pre), call.pfn, call.order))
              [] OTHER ->
                    Snapshot(allocate_pages(StateOf(call.pre), call.order, call.zero).st)]_vars

\* Every iteration of the loop of insert_free_pages moves cur forward and
\* takes at least one page off remaining, which stays at 0 or above.
InsertConsumes ==
    [][call.pc = "insert_step" =>
            /\ call'.remaining < call.remaining
            /\ call'.remaining >= 0
            /\ call'.cur > call.cur]_vars

----------------------------------------------------------------------------
(* free_pages with arguments that fail its assertions.                     *)

\* free_pages(block, order) of any page with an order in range to which the
\* page's pfn is not aligned.
FreeMisaligned(block, order) ==
    /\ ~halted
    /\ last.op \in {"none", "insert", "alloc", "free"}
    /\ order \in Orders
    /\ ~block_aligned(order, block)
    /\ Becomes(free_pages(State, block, order))
    /\ last' = [op |-> "freeargs", pfn |-> block, order |-> order, count |-> 0,
                zero |-> FALSE, pre |-> Snapshot(State), rt |-> Snapshot(State),
                round |-> FALSE]
    /\ UNCHANGED <<inserted, allocated, started>>
    /\ UNCHANGED sched_vars

\* free_pages(block, order) of any page with order = -1 or order = LastOrder + 1.
FreeOutOfRange(block, order) ==
    /\ ~halted
    /\ last.op \in {"none", "insert", "alloc", "free"}
    /\ order \notin Orders
    /\ Becomes(free_pages(State, block, order))
    /\ last' = [op |-> "freeargs", pfn |-> block, order |-> order, count |-> 0,
                zero |-> FALSE, pre |-> Snapshot(State), rt |-> Snapshot(State),
                round |-> FALSE]
    /\ UNCHANGED <<inserted, allocated, started>>
    /\ UNCHANGED sched_vars

NextBadFree ==
    \/ NextPlain
    \/ \E block \in Pages, order \in Orders : FreeMisaligned(block, order)
    \/ \E block \in Pages, order \in {-1, LastOrder + 1} : FreeOutOfRange(block, order)

SpecBadFree == Init /\ [][NextBadFree]_vars

\* C21: free_pages(B, o) with o outside 0..LastOrder, or with pfn(B) not
\* divisible by 2^o, halts, and no free list, no link word, no page content
\* and not total_free has changed when it does.
C21_BadFreeHaltsUnchanged ==
    last.op = "freeargs" =>
        /\ halted
        /\ Snapshot(State) = last.pre
        /\ \A o \in Orders : Entries(o) = EntriesOf(last.pre, o)

\* free_pages of a misaligned page whose pages lie in non-empty free lists,
\* with allocations outstanding, has halted.
C21_Witness ==
    /\ last.op = "freeargs"
    /\ last.order \in Orders
    /\ last.pfn \in FreeCover
    /\ allocated # {}
    /\ halted

----------------------------------------------------------------------------
(* insert_free_block called on its own.                                    *)

\* insert_free_block(order, block) with an order in range and a block
\* aligned to it, whatever the block is part of.
InsertFreeBlock(order, block) ==
    /\ ~halted
    /\ last.op \in {"none", "insert", "alloc", "free"}
    /\ block_aligned(order, block)
    /\ Becomes(insert_free_block(State, order, block))
    /\ last' = [op |-> "insblock", pfn |-> block, order |-> order, count |-> 0,
                zero |-> FALSE, pre |-> Snapshot(State), rt |-> Snapshot(State),
                round |-> FALSE]
    /\ UNCHANGED <<inserted, allocated, started>>
    /\ UNCHANGED sched_vars

NextInsertBlock ==
    \/ NextPlain
    \/ \E order \in Orders, block \in Pages : InsertFreeBlock(order, block)

SpecInsertBlock == Init /\ [][NextInsertBlock]_vars

\* The order-o list of snapshot s is strictly ascending by pfn.
AscendingOf(s, o) ==
    \A i \in 1 .. Len(EntriesOf(s, o)) - 1 : EntriesOf(s, o)[i] < EntriesOf(s, o)[i + 1]

\* The pages of the free-list entries of snapshot s whose order is not o.
OtherCoverOf(s, o) ==
    UNION {UNION {BlockPages(EntriesOf(s, x)[i], x) : i \in 1 .. Len(EntriesOf(s, x))}
              : x \in Orders \ {o}}

\* C22: when the order-o list is strictly ascending, insert_free_block(o, B)
\* with B an entry of that list halts and leaves every list, link word and
\* the counter unchanged, at whatever position B is; with B not an entry of
\* that list it does not halt and B becomes an entry of the list, also
\* when B is an entry of, or a page inside an entry of, a list of another order.
C22_DuplicateInsertDetection ==
    (last.op = "insblock" /\ AscendingOf(last.pre, last.order)) =>
        IF last.pfn \in EntrySetOf(last.pre, last.order)
        THEN /\ halted
             /\ Snapshot(State) = last.pre
        ELSE /\ ~halted
             /\ EntrySetOf(State, last.order) = EntrySetOf(last.pre, last.order) \cup {last.pfn}
             /\ AscendingOf(State, last.order)

\* insert_free_block of an entry that is neither the first nor the last of
\* its list has halted.
C22_Witness ==
    /\ last.op = "insblock"
    /\ halted
    /\ Len(EntriesOf(last.pre, last.order)) >= 3
    /\ last.pfn = EntriesOf(last.pre, last.order)[2]

\* insert_free_block of a page inside a free entry of a higher order has
\* gone through: the page is now in two lists.
C22_OverlapGoesThrough ==
    /\ last.op = "insblock"
    /\ ~halted
    /\ last.pfn \in OtherCoverOf(last.pre, last.order)
    /\ last.pfn \in EntrySetOf(State, last.order)

----------------------------------------------------------------------------
(* The round-robin scheduler: a run queue of task control blocks.          *)

\* The number of tasks, and the number of selections followed between two
\* changes of the run queue.
NumTasks == 3
MaxPicks == 6

Tasks == 1 .. NumTasks

\* The list operations that round_robin uses on runqueue_.
list_append(q, t) == Append(q, t)

list_empty(q) == Len(q) = 0

list_count(q) == Len(q)

list_first(q) == q[1]

\* Removes the element t from the list.
list_remove(q, t) == SelectSeq(q, LAMBDA x : x # t)

\* Takes the first element, puts it at the back and returns it.
list_rotate(q) == [q |-> Append(Tail(q), Head(q)), res |-> Head(q)]

add_to_runqueue(q, t) == list_append(q, t)

remove_from_runqueue(q, t) ==
    IF list_empty(q) THEN q
    ELSE list_remove(q, t)

\* Variant of select_next_task that returns the first task of any non-empty
\* queue without rotating (count() >= 1).
select_next_task_no_rotation(q) ==
    IF list_empty(q) THEN [q |-> q, res |-> NULL]
    ELSE IF list_count(q) >= 1 THEN [q |-> q, res |-> list_first(q)]
    ELSE list_rotate(q)

\* Result: q = the run queue after the call, res = the task returned or NULL.
select_next_task(q) ==
    IF list_empty(q) THEN [q |-> q, res |-> NULL]
    ELSE IF list_count(q) = 1 THEN [q |-> q, res |-> list_first(q)]
    ELSE list_rotate(q)

\* The tasks in queue q.
Queued(q) == {q[i] : i \in 1 .. Len(q)}

\* add_to_runqueue(tcb) of a task that is not queued.
AddToRunqueue(t) ==
    /\ t \notin Queued(runqueue)
    /\ runqueue' = add_to_runqueue(runqueue, t)
    /\ sched' = [op |-> "add", task |-> t, ret |-> NULL, pre |-> runqueue,
                 base |-> runqueue', picks |-> <<>>]
    /\ UNCHANGED mem_vars

\* remove_from_runqueue(tcb) of a queued task, or of any task while the
\* queue is empty.
RemoveFromRunqueue(t) ==
    /\ t \in Queued(runqueue) \/ runqueue = <<>>
    /\ runqueue' = remove_from_runqueue(runqueue, t)
    /\ sched' = [op |-> "remove", task |-> t, ret |-> NULL, pre |-> runqueue,
                 base |-> runqueue', picks |-> <<>>]
    /\ UNCHANGED mem_vars

\* select_next_task(current)
SelectNextTask ==
    /\ Len(sched.picks) < MaxPicks
    /\ LET r == select_next_task(runqueue)
       IN  /\ runqueue' = r.q
           /\ sched' = [sched EXCEPT !.op = "select", !.task = NULL, !.ret = r.res,
                                     !.pre = runqueue, !.picks = Append(@, r.res)]
    /\ UNCHANGED mem_vars

NextSched ==
    \/ \E t \in Tasks : AddToRunqueue(t)
    \/ \E t \in Tasks : RemoveFromRunqueue(t)
    \/ SelectNextTask

SpecSched == Init /\ [][NextSched]_vars

\* C23: select_next_task returns null on an empty run queue and otherwise
\* returns the head of the queue and leaves the queue with that task moved
\* to the tail; with n >= 1 queued tasks and no add or remove in between,
\* every n consecutive calls return the n tasks once each, in queue order
\* (the i-th call since the last add or remove returns the task at position
\* ((i - 1) mod n) + 1 of the queue as it then was), and with n = 1 the
\* queue stays as it is; remove_from_runqueue on an empty queue leaves it empty.
C23_RoundRobin ==
    LET n == Len(sched.base)
        k == Len(sched.picks)
    IN  /\ sched.op = "select" =>
              IF sched.pre = <<>>
              THEN sched.ret = NULL /\ runqueue = <<>>
              ELSE /\ sched.ret = Head(sched.pre)
                   /\ runqueue = Append(Tail(sched.pre), Head(sched.pre))
        /\ n >= 1 =>
              /\ \A i \in 1 .. k : sched.picks[i] = sched.base[((i - 1) % n) + 1]
              /\ \A j \in 1 .. k - n + 1 :
                    /\ {sched.picks[i] : i \in j .. j + n - 1} = Queued(sched.base)
                    /\ \A a, b \in j .. j + n - 1 : a # b => sched.picks[a] # sched.picks[b]
              /\ Queued(runqueue) = Queued(sched.base)
        /\ (n = 1 /\ sched.op = "select") => runqueue = sched.pre
        /\ (sched.op = "remove" /\ sched.pre = <<>>) => runqueue = <<>>

\* More than one full round of selections over a queue of three or more
\* tasks whose order is not the order of their addresses.
C23_Witness ==
    /\ sched.op = "select"
    /\ Len(sched.base) >= 3
    /\ Len(sched.picks) > Len(sched.base)
    /\ sched.base[1] > sched.base[2]

====
